---- MODULE Spec2Model ----
(***************************************************************************)
(* State-machine model of the FAT16 recovery engine of                     *)
(* python-fat-forensics (src/FAT16Recover.py) and of its boot record and   *)
(* boot sector decoders (src/MBR.py, src/Boot.py).                         *)
(*                                                                         *)
(* Buffers of bytes are modelled with their true lengths.  A large buffer  *)
(* (the in-memory FAT) is a record [len, nz]: its length in bytes and the  *)
(* bytes that are not zero, by offset; every other byte reads as 0.        *)
(***************************************************************************)
EXTENDS Integers, Sequences, FiniteSets, TLC

VARIABLES
    pc,               \* control point of the running call
    \* the source image and the globals set by setup_disk_params
    image_len,               \* length in bytes of the image file FILE_NAME
    GLOBAL_FAT_DATA,         \* FAT16Recover.py:22, the FAT read at setup
    SECTORS_PER_CLUSTER,     \* FAT16Recover.py:18
    DATA_REGION_START_LBA,   \* FAT16Recover.py:21
    ROOT_DIR_START_LBA,      \* FAT16Recover.py:20
    ROOT_DIR_SECTORS,        \* FAT16Recover.py:17
    PARTITION_START_LBA,     \* FAT16Recover.py:13
    RESERVED_SECTORS,        \* FAT16Recover.py:14
    NUM_FATS,                \* FAT16Recover.py:15
    FAT_SIZE_SECTORS,        \* FAT16Recover.py:16
    FAT1_START_LBA,          \* FAT16Recover.py:19
    image_dirs,              \* LBA -> the directory records the image holds there
    image_sectors,           \* LBA -> the bytes the image holds from that sector
                             \* on (boot record, boot sector, FAT), as [len, nz]
    parsed_result,    \* MBR.py:108, the value parse_mbr returned
    \* trace_fat_chain
    start_cluster,    \* argument
    current_cluster,  \* local
    chain,            \* local, the result when pc = "trace_done"
    \* recover_file
    rf_start_cluster, \* argument start_cluster
    file_size,        \* argument
    output_path,      \* argument
    cluster_chain,    \* local
    bytes_recovered,  \* local
    cluster_index,    \* position of the for loop in cluster_chain
    rf_result,        \* the value returned, "none" while running
    \* parse_and_recover_directory: the frames of the running calls, the
    \* innermost first, each [start_lba, dir_path, dir_data, i, lfn_fragments]
    stack,
    walk_log,         \* history: what the walker did with each record it met
    \* the host file system: path -> content, a sequence of pieces [off, len],
    \* each the len bytes of the image that start at byte offset off
    host_files,
    host_dirs         \* the directories made on the host, RECOVERY_DIR included

imageVars == <<image_len, image_dirs, image_sectors>>
globalVars == <<GLOBAL_FAT_DATA, SECTORS_PER_CLUSTER, DATA_REGION_START_LBA,
                ROOT_DIR_START_LBA, ROOT_DIR_SECTORS, PARTITION_START_LBA,
                RESERVED_SECTORS, NUM_FATS, FAT_SIZE_SECTORS, FAT1_START_LBA>>
diskVars == <<imageVars, globalVars, parsed_result>>
traceVars == <<start_cluster, current_cluster, chain>>
rfVars == <<rf_start_cluster, file_size, output_path, cluster_chain,
            bytes_recovered, cluster_index, rf_result>>

walkVars == <<stack, walk_log>>

vars == <<pc, diskVars, traceVars, rfVars, walkVars, host_files, host_dirs>>

----------------------------------------------------------------------------
(* Bounds of the model *)

\* FAT entries 2..MaxLinkCluster are drawn freely; all others but 0, 1 are 0.
MaxLinkCluster == 4

\* The safety break of trace_fat_chain (FAT16Recover.py:107) compares
\* len(chain) with 65535; the model scales that number down so that a run
\* reaches it.  The comparison itself is kept as in the source.
CHAIN_CAP == 4

\* In the calls of recover_file the model starts from, FAT entries
\* 2..MaxRecoverCluster are drawn freely.
MaxRecoverCluster == 3

\* A root directory of the model spells out at most MaxRecords records; the
\* rest of its block is zero.
MaxRecords == 3

\* The number of nested calls of parse_and_recover_directory at which the
\* interpreter ends the recursion with a RecursionError.  It is 1000 frames
\* unless sys.setrecursionlimit is called, which the source does not do; the
\* model scales it down and keeps it above 64, the depth the specification
\* names as a cap.
RECURSION_LIMIT == 66

----------------------------------------------------------------------------
(* Program constants *)

SECTOR_SIZE == 512

FAT_FREE == \h0000
FAT_BAD == \hFFF7
FAT_EOC_FIRST == \hFFF8
FAT_EOC_LAST == \hFFFF

----------------------------------------------------------------------------
(* Byte buffers *)

BufLen(buf) == buf.len

ByteAt(buf, o) == IF o \in DOMAIN buf.nz THEN buf.nz[o] ELSE 0

\* A big-endian reading of the two bytes
UnpackU16BE(b0, b1) == b1 + 256 * b0

\* struct.unpack('<H', b)[0]
UnpackU16LE(b0, b1) == b0 + 256 * b1

\* The two bytes struct.pack('<H', v) of a 16-bit value
PackU16LE(v) == <<v % 256, v \div 256>>

----------------------------------------------------------------------------
(* The FAT buffers the model starts from *)

LinkClusters == 2..MaxLinkCluster

\* Values a FAT entry may hold: free, the reserved 0x0001, next-cluster
\* values, the reserved 0xFFF0, bad, and two end-of-chain values.
EntryValues == {FAT_FREE, \h0001, \hFFF0, FAT_BAD, FAT_EOC_FIRST, FAT_EOC_LAST}
                   \cup LinkClusters

\* Entries 0 and 1 hold the media descriptor and the end-of-chain mark.
FatEntryMaps ==
    { [c \in {0, 1} \cup LinkClusters |->
          IF c = 0 THEN \hFFF8 ELSE IF c = 1 THEN \hFFFF ELSE e[c]] :
      e \in [LinkClusters -> EntryValues] }

\* read_sector(FILE_NAME, FAT1_START_LBA, count=FAT_SIZE_SECTORS): a buffer of
\* FAT_SIZE_SECTORS * SECTOR_SIZE bytes holding the entries little-endian.
FatBuffer(sectors, entries) ==
    [len |-> sectors * SECTOR_SIZE,
     nz  |-> [o \in { x \in UNION {{2 * c, 2 * c + 1} : c \in DOMAIN entries} :
                      PackU16LE(entries[x \div 2])[(x % 2) + 1] # 0 } |->
              PackU16LE(entries[o \div 2])[(o % 2) + 1]]]

FatSectorCounts == {1, 256}

FatBuffers == { FatBuffer(s, e) : s \in FatSectorCounts, e \in FatEntryMaps }

StartClusters == {0, 1, \h0100, \hFFFF} \cup LinkClusters

----------------------------------------------------------------------------
(* trace_fat_chain, one loop iteration per step *)

\* FAT16Recover.py:89-91
OutOfFat(cluster) == cluster * 2 + 2 > BufLen(GLOBAL_FAT_DATA)

\* FAT16Recover.py:93-94
FatEntry(cluster) ==
    UnpackU16LE(ByteAt(GLOBAL_FAT_DATA, cluster * 2),
                ByteAt(GLOBAL_FAT_DATA, cluster * 2 + 1))

\* FAT16Recover.py:98-103: the values that end the trace
IsChainEnd(next_cluster) ==
    \/ FAT_EOC_FIRST <= next_cluster /\ next_cluster <= FAT_EOC_LAST
    \/ next_cluster = FAT_FREE
    \/ next_cluster = FAT_BAD

\* FAT16Recover.py:107
CapReached(c) == Len(c) > CHAIN_CAP

\* A trace that fails to record the cluster it visits
ChainAppendLost(c, cluster) == c

\* FAT16Recover.py:96
ChainAppend(c, cluster) == Append(c, cluster)

\* FAT16Recover.py:84-85
TraceEnter(start) ==
    /\ start_cluster' = start
    /\ current_cluster' = start
    /\ chain' = <<>>

\* FAT16Recover.py:87-108
TraceIter ==
    /\ pc = "trace_loop"
    /\ UNCHANGED <<diskVars, rfVars, walkVars, host_files, host_dirs, start_cluster>>
    /\ IF OutOfFat(current_cluster)
       THEN /\ pc' = "trace_done"
            /\ UNCHANGED <<current_cluster, chain>>
       ELSE LET next_cluster == FatEntry(current_cluster)
                appended == ChainAppend(chain, current_cluster)
            IN  /\ chain' = appended
                /\ IF IsChainEnd(next_cluster)
                   THEN /\ pc' = "trace_done"
                        /\ UNCHANGED current_cluster
                   ELSE /\ current_cluster' = next_cluster
                        /\ pc' = IF CapReached(appended)
                                 THEN "trace_done" ELSE "trace_loop"


----------------------------------------------------------------------------
(* read_sector *)

NoData == [ok |-> FALSE, off |-> 0, len |-> 0]

Min(a, b) == IF a <= b THEN a ELSE b

Max(a, b) == IF a >= b THEN a ELSE b

\* FAT16Recover.py:26-37.  The bytes read are named by where they lie in the
\* image: [off, len].  f.seek raises on a negative offset, f.read returns
\* what the file holds from the offset on, at most the length asked for.
read_sector(lba, count) ==
    LET offset_bytes == lba * SECTOR_SIZE
        got == Max(0, Min(image_len - offset_bytes, SECTOR_SIZE * count))
    IN  IF offset_bytes < 0 THEN NoData
        ELSE IF got # SECTOR_SIZE * count THEN NoData
        ELSE [ok |-> TRUE, off |-> offset_bytes, len |-> got]

\* Python's "not data" for data that is None or a bytes object
NotData(data) == ~data.ok \/ data.len = 0

\* data[:n] of a bytes object
SlicePrefix(data, n) ==
    [off |-> data.off,
     len |-> IF n >= 0 THEN Min(n, data.len) ELSE Max(data.len + n, 0)]

----------------------------------------------------------------------------
(* The host file system *)

\* FAT16Recover.py:5-6, as sequences of code points: '2gb.dd' and
\* 'RECOVERED_DATA'
FILE_NAME == <<50, 103, 98, 46, 100, 100>>
RECOVERY_DIR == <<82, 69, 67, 79, 86, 69, 82, 69, 68, 95, 68, 65, 84, 65>>

\* A host path is the sequence of its components from the working
\* directory on.  The image is the file FILE_NAME of the working directory.
ImagePath == <<FILE_NAME>>

NoFiles == [q \in {} |-> <<>>]

FileExists(path) == path \in DOMAIN host_files

\* The path names RECOVERY_DIR itself or a directory made below it
IsDirectory(path) == path = <<>> \/ path \in host_dirs

\* A path with a NUL character in one of its components: open, os.mkdir
\* and os.stat raise ValueError on it
EmbeddedNul(path) ==
    \E k \in 1..Len(path) : \E n \in 1..Len(path[k]) : path[k][n] = 0

\* open(path, 'wb'): the file is created, or cut to no bytes
CreateFile(files, path) ==
    [q \in DOMAIN files \cup {path} |-> IF q = path THEN <<>> ELSE files[q]]

\* outfile.write(piece)
WriteFile(files, path, piece) ==
    [files EXCEPT ![path] = IF piece.len = 0 THEN @ ELSE Append(@, piece)]

RECURSIVE PiecesLen(_)
PiecesLen(content) ==
    IF content = <<>> THEN 0
    ELSE content[1].len + PiecesLen(Tail(content))

----------------------------------------------------------------------------
(* recover_file, one iteration of the for loop per step *)

\* Writing the whole cluster whatever remains of the file
BytesToWriteWhole(bytes_per_cluster, bytes_remaining) == bytes_per_cluster

\* FAT16Recover.py:142
BytesToWrite(bytes_per_cluster, bytes_remaining) ==
    Min(bytes_per_cluster, bytes_remaining)

\* An LBA that counts the clusters of the data region from 0
ClusterLbaFromZero(cluster) ==
    DATA_REGION_START_LBA + cluster * SECTORS_PER_CLUSTER

\* FAT16Recover.py:132, 281
ClusterLba(cluster) ==
    DATA_REGION_START_LBA + (cluster - 2) * SECTORS_PER_CLUSTER

RecoverReturn(value) ==
    /\ rf_result' = value
    /\ pc' = "rf_done"

\* FAT16Recover.py:114-119: the entry test, then the call of trace_fat_chain
RecoverEntry ==
    /\ pc = "rf_entry"
    /\ UNCHANGED <<diskVars, walkVars, host_files, host_dirs, rf_start_cluster,
                   file_size, output_path, cluster_chain, bytes_recovered,
                   cluster_index>>
    /\ IF rf_start_cluster < 2 \/ file_size = 0
       THEN /\ RecoverReturn(FALSE)
            /\ UNCHANGED traceVars
       ELSE /\ TraceEnter(rf_start_cluster)
            /\ pc' = "trace_loop"
            /\ UNCHANGED rf_result

\* FAT16Recover.py:119-128: the chain is back; the output file is opened.
\* open() raises when the path names a directory or the host refuses it
\* (host_ok = FALSE).
RecoverOpen ==
    /\ pc = "trace_done"
    /\ UNCHANGED <<image_dirs, image_sectors, globalVars, parsed_result, traceVars,
                   walkVars, host_dirs, rf_start_cluster, file_size, output_path>>
    /\ cluster_chain' = chain
    /\ IF chain = <<>>
       THEN /\ RecoverReturn(FALSE)
            /\ UNCHANGED <<image_len, host_files, bytes_recovered, cluster_index>>
       ELSE \E host_ok \in BOOLEAN :
              IF host_ok /\ ~IsDirectory(output_path) /\ ~EmbeddedNul(output_path)
              THEN /\ host_files' = CreateFile(host_files, output_path)
                   \* mode 'wb' empties the file it opens
                   /\ image_len' = IF output_path = ImagePath THEN 0 ELSE image_len
                   /\ bytes_recovered' = 0
                   /\ cluster_index' = 1
                   /\ pc' = "rf_loop"
                   /\ UNCHANGED rf_result
              ELSE /\ RecoverReturn(FALSE)
                   /\ UNCHANGED <<image_len, host_files, bytes_recovered,
                                  cluster_index>>

\* FAT16Recover.py:130-153: one cluster of the chain.  outfile.write raises
\* when the host refuses the bytes (host_ok = FALSE).
RecoverCluster ==
    /\ pc = "rf_loop"
    /\ UNCHANGED <<diskVars, traceVars, walkVars, host_dirs, rf_start_cluster,
                   file_size, output_path, cluster_chain>>
    /\ LET bytes_per_cluster == SECTORS_PER_CLUSTER * SECTOR_SIZE
           cluster == cluster_chain[cluster_index]
           cluster_data == read_sector(ClusterLba(cluster), SECTORS_PER_CLUSTER)
           bytes_remaining == file_size - bytes_recovered
           bytes_to_write == BytesToWrite(bytes_per_cluster, bytes_remaining)
       IN  IF NotData(cluster_data)
           THEN /\ RecoverReturn(TRUE)
                /\ UNCHANGED <<host_files, bytes_recovered, cluster_index>>
           ELSE \E host_ok \in BOOLEAN :
                  IF host_ok
                  THEN /\ host_files' = WriteFile(host_files, output_path,
                                           SlicePrefix(cluster_data, bytes_to_write))
                       /\ bytes_recovered' = bytes_recovered + bytes_to_write
                       /\ IF \/ bytes_recovered + bytes_to_write >= file_size
                             \/ cluster_index = Len(cluster_chain)
                          THEN /\ RecoverReturn(TRUE)
                               /\ UNCHANGED cluster_index
                          ELSE /\ cluster_index' = cluster_index + 1
                               /\ UNCHANGED <<pc, rf_result>>
                  ELSE /\ RecoverReturn(FALSE)
                       /\ UNCHANGED <<host_files, bytes_recovered, cluster_index>>

----------------------------------------------------------------------------
(* Directory records and names.  A record is its 32 bytes; a name is the    *)
(* sequence of its characters' code points.                                 *)

\* entry_data[o] of a 32-byte record
RecByte(entry_data, o) == entry_data[o + 1]

\* entry_data[a:b]
RecSlice(entry_data, a, b) == SubSeq(entry_data, a + 1, b)

\* struct.unpack('<I', b)[0]
UnpackU32LE(b) == b[1] + 256 * b[2] + 65536 * b[3] + 16777216 * b[4]

LFN_ATTRIBUTES == \h0F

\* str.isspace(), the characters str.strip() removes
IsSpace(c) ==
    \/ c \in 9..13
    \/ c \in 28..32
    \/ c \in {\h85, \hA0, \h1680, \h2028, \h2029, \h202F, \h205F, \h3000}
    \/ c \in \h2000..\h200A

RECURSIVE LStrip(_)
LStrip(str) ==
    IF str # <<>> /\ IsSpace(Head(str)) THEN LStrip(Tail(str)) ELSE str

RECURSIVE RStrip(_)
RStrip(str) ==
    IF str # <<>> /\ IsSpace(str[Len(str)])
    THEN RStrip(SubSeq(str, 1, Len(str) - 1))
    ELSE str

Strip(str) == LStrip(RStrip(str))

\* bytes.decode('utf-16-le', errors='replace') of a sequence of bytes: a
\* surrogate pair is one character, a surrogate alone is U+FFFD.
RECURSIVE DecodeUtf16LE(_)
DecodeUtf16LE(b) ==
    IF Len(b) < 2 THEN (IF b = <<>> THEN <<>> ELSE <<\hFFFD>>)
    ELSE LET u == UnpackU16LE(b[1], b[2])
             rest == SubSeq(b, 3, Len(b))
         IN  IF u \in \hD800..\hDBFF
             THEN IF Len(rest) >= 2
                     /\ UnpackU16LE(rest[1], rest[2]) \in \hDC00..\hDFFF
                  THEN <<65536 + (u - \hD800) * 1024
                               + (UnpackU16LE(rest[1], rest[2]) - \hDC00)>>
                           \o DecodeUtf16LE(SubSeq(rest, 3, Len(rest)))
                  ELSE <<\hFFFD>> \o DecodeUtf16LE(rest)
             ELSE IF u \in \hDC00..\hDFFF
             THEN <<\hFFFD>> \o DecodeUtf16LE(rest)
             ELSE <<u>> \o DecodeUtf16LE(rest)

\* str.split('\x00')[0]
RECURSIVE UpToNul(_)
UpToNul(str) ==
    IF str = <<>> \/ Head(str) = 0 THEN <<>>
    ELSE <<Head(str)>> \o UpToNul(Tail(str))

\* FAT16Recover.py:157-174
decode_lfn_fragment(entry_data) ==
    LET full_chars == RecSlice(entry_data, \h01, \h0B)
                          \o RecSlice(entry_data, \h0E, \h1A)
                          \o RecSlice(entry_data, \h1C, \h20)
        name == DecodeUtf16LE(full_chars)
    IN  Strip(UpToNul(name))

\* bytes.decode('ascii', errors='replace')
DecodeAscii(b) == [k \in 1..Len(b) |-> IF b[k] < 128 THEN b[k] ELSE \hFFFD]

\* Joining the fragments as they lie on disk
RECURSIVE JoinFragments(_)
JoinFragments(frags) ==
    IF frags = <<>> THEN <<>>
    ELSE Head(frags)[2] \o JoinFragments(Tail(frags))

\* list.sort(key=lambda x: x[0]): stable, ascending in the sequence number
RECURSIVE InsertFragment(_, _)
InsertFragment(sorted, f) ==
    IF sorted = <<>> THEN <<f>>
    ELSE IF sorted[Len(sorted)][1] <= f[1] THEN Append(sorted, f)
    ELSE Append(InsertFragment(SubSeq(sorted, 1, Len(sorted) - 1), f),
                sorted[Len(sorted)])

RECURSIVE SortFragments(_)
SortFragments(frags) ==
    IF frags = <<>> THEN <<>>
    ELSE InsertFragment(SortFragments(SubSeq(frags, 1, Len(frags) - 1)),
                        frags[Len(frags)])

\* The fragments left in their on-disk order
KeepFragmentOrder(frags) == frags

\* FAT16Recover.py:239
OrderFragments(frags) == SortFragments(frags)

\* FAT16Recover.py:237-240: the long name, "" without fragments
AssembleLongName(lfn_fragments) ==
    IF lfn_fragments # <<>>
    THEN JoinFragments(OrderFragments(lfn_fragments))
    ELSE <<>>

\* A short name whose first byte becomes '_' for every deleted entry
ShortNameUnderscore(entry_data, is_deleted) ==
    LET raw == RecSlice(entry_data, \h00, \h0B)
        name_bytes == IF is_deleted THEN [raw EXCEPT ![1] = \h5F] ELSE raw
        base_name == RStrip(DecodeAscii(SubSeq(name_bytes, 1, 8)))
        ext == RStrip(DecodeAscii(SubSeq(name_bytes, 9, 11)))
    IN  IF ext # <<>> THEN base_name \o <<\h2E>> \o ext ELSE base_name

\* FAT16Recover.py:244-260: the name from the 11 short-name bytes
ShortName(entry_data, is_deleted) ==
    LET raw == RecSlice(entry_data, \h00, \h0B)
        name_bytes ==
            IF is_deleted
            THEN [raw EXCEPT ![1] = IF raw[2] = \h5F THEN \h2E ELSE \h5F]
            ELSE raw
        base_name == RStrip(DecodeAscii(SubSeq(name_bytes, 1, 8)))
        ext == RStrip(DecodeAscii(SubSeq(name_bytes, 9, 11)))
    IN  IF ext # <<>> THEN base_name \o <<\h2E>> \o ext ELSE base_name

\* FAT16Recover.py:266
Sanitize(str) ==
    Strip([k \in 1..Len(str) |->
              IF str[k] \in {\h3F, \h2F, \h5C} THEN \h5F ELSE str[k]])

\* A resolution that takes the short name whenever the 11 bytes give one
ResolveNameShortFirst(entry_data, lfn_fragments, is_deleted) ==
    LET short_name == ShortName(entry_data, is_deleted)
    IN  Sanitize(IF short_name # <<>> THEN short_name
                 ELSE AssembleLongName(lfn_fragments))

\* FAT16Recover.py:235-266
ResolveName(entry_data, lfn_fragments, is_deleted) ==
    LET long_name == AssembleLongName(lfn_fragments)
    IN  Sanitize(IF long_name # <<>> THEN long_name
                 ELSE ShortName(entry_data, is_deleted))

\* os.path.join(dir_path, final_name); a path is the sequence of its
\* components, and joining "" adds no component.
PathJoin(dir_path, final_name) ==
    IF final_name = <<>> THEN dir_path ELSE Append(dir_path, final_name)

\* A host path that is taken from the working directory
UnrootedPath(current_full_path) == current_full_path

\* FAT16Recover.py:278, 292: os.path.join(RECOVERY_DIR, current_full_path)
RecoveryPath(current_full_path) == <<RECOVERY_DIR>> \o current_full_path

(* Building the records of the images the model starts from *)

PackU32LE(v) ==
    <<v % 256, (v \div 256) % 256, (v \div 65536) % 256, v \div 16777216>>

RECURSIVE PackUnits(_)
PackUnits(units) ==
    IF units = <<>> THEN <<>>
    ELSE PackU16LE(Head(units)) \o PackUnits(Tail(units))

\* The 13 code units of a long-name record: the text, then a NUL and 0xFFFF
\* padding when the text is shorter.
LfnUnits(text) ==
    [k \in 1..13 |-> IF k <= Len(text) THEN text[k]
                     ELSE IF k = Len(text) + 1 THEN 0 ELSE \hFFFF]

\* A long-name record with the given first byte and text
LfnRecord(first_byte, text) ==
    LET u == PackUnits(LfnUnits(text))
    IN  <<first_byte>> \o SubSeq(u, 1, 10) \o <<LFN_ATTRIBUTES, 0, 0>>
            \o SubSeq(u, 11, 22) \o <<0, 0>> \o SubSeq(u, 23, 26)

\* A short-name record
SfnRecord(name11, attributes, cluster, size) ==
    name11 \o <<attributes>> \o [k \in 1..14 |-> 0]
        \o PackU16LE(cluster) \o PackU32LE(size)

----------------------------------------------------------------------------
(* parse_and_recover_directory, one directory record per step *)

ZeroRecord == [k \in 1..32 |-> 0]

\* FAT16Recover.py:185-191: the directory block read at start_lba.  The
\* records stay in the image (image_dirs); dir_data names where they lie
\* and how many bytes were read.
ReadDirectory(start_lba) ==
    LET read_count == IF start_lba = ROOT_DIR_START_LBA
                      THEN ROOT_DIR_SECTORS
                      ELSE SECTORS_PER_CLUSTER
    IN  read_sector(start_lba, read_count)

\* dir_data[i * 32 : i * 32 + 32]: records the image does not spell out are
\* all zero
DirEntry(dir_data, i) ==
    LET lba == dir_data.off \div SECTOR_SIZE
        recs == IF lba \in DOMAIN image_dirs THEN image_dirs[lba] ELSE <<>>
    IN  IF i + 1 <= Len(recs) THEN recs[i + 1] ELSE ZeroRecord

\* A walker that does not stop at a record whose first byte is 0x00
NeverEndOfDirectory(first_byte) == FALSE

\* FAT16Recover.py:209-210
IsEndOfDirectory(first_byte) == first_byte = \h00

\* os.makedirs(path, exist_ok=True) raises when the path is empty, when
\* the path or one of its parents is a file, and when a component holds a
\* NUL character
MakeDirsFails(path) ==
    \/ path = <<>>
    \/ EmbeddedNul(path)
    \/ \E k \in 1..Len(path) :
        SubSeq(path, 1, k) \in DOMAIN host_files \cup {ImagePath}

\* The directories os.makedirs leaves: every prefix of the path up to the
\* first that is a file or ends in a component with a NUL character
MakeDirs(dirs, path) ==
    dirs \cup { SubSeq(path, 1, k) : k \in
                  { n \in 1..Len(path) :
                      \A j \in 1..n :
                          /\ SubSeq(path, 1, j) \notin DOMAIN host_files \cup {ImagePath}
                          /\ ~EmbeddedNul(SubSeq(path, 1, j)) } }

\* A call of os.makedirs from a walker call at this depth exceeds the
\* interpreter's recursion limit
RecursionError(depth) == depth >= RECURSION_LIMIT

NewFrame(start_lba, dir_path) ==
    [start_lba |-> start_lba, dir_path |-> dir_path, dir_data |-> NoData,
     i |-> 0, lfn_fragments |-> <<>>]

\* A walker that carries its fragments over a short-name record
KeepFragments(frame) == frame

\* FAT16Recover.py:263
ResetFragments(frame) == [frame EXCEPT !.lfn_fragments = <<>>]

LogEntry(frame, what, long_name, name) ==
    [lba |-> frame.start_lba, index |-> frame.i, what |-> what,
     long_name |-> long_name, name |-> name]

\* The innermost call returns: its caller goes on with its next record, and
\* the walk is over when the root call returns.
WalkReturn ==
    /\ stack' = IF Len(stack) = 1 THEN <<>>
                ELSE <<[stack[2] EXCEPT !.i = @ + 1]>> \o SubSeq(stack, 3, Len(stack))
    /\ pc' = IF Len(stack) = 1 THEN "walk_done" ELSE "walk_loop"

\* The loop goes on with the next record of the same directory
WalkContinue(frame) ==
    /\ stack' = <<[frame EXCEPT !.i = @ + 1]>> \o Tail(stack)
    /\ pc' = "walk_loop"

\* An exception nothing catches ends the run; the calls are left as they
\* were when it was raised
WalkCrash(frame) ==
    /\ pc' = "crashed"
    /\ stack' = <<frame>> \o Tail(stack)

\* FAT16Recover.py:178-199: the call reads its directory block
WalkEnter ==
    /\ pc = "walk_entry"
    /\ UNCHANGED <<diskVars, traceVars, rfVars, host_files, host_dirs, walk_log>>
    /\ LET frame == Head(stack)
           dir_data == ReadDirectory(frame.start_lba)
       IN  IF NotData(dir_data)
           THEN WalkReturn
           ELSE /\ stack' = <<[frame EXCEPT !.dir_data = dir_data,
                                            !.lfn_fragments = <<>>,
                                            !.i = 0]>> \o Tail(stack)
                /\ pc' = "walk_loop"

\* FAT16Recover.py:296: the call of recover_file
CallRecover(cluster, size, path) ==
    /\ rf_start_cluster' = cluster
    /\ file_size' = size
    /\ output_path' = path
    /\ cluster_chain' = <<>>
    /\ bytes_recovered' = 0
    /\ cluster_index' = 0
    /\ rf_result' = "none"
    /\ pc' = "rf_entry"

\* FAT16Recover.py:202-296: one record of the directory of the innermost call
WalkRecord ==
    /\ pc = "walk_loop"
    /\ UNCHANGED <<diskVars, traceVars, host_files>>
    /\ LET frame == Head(stack)
           entry_data == DirEntry(frame.dir_data, frame.i)
           first_byte == RecByte(entry_data, \h00)
           attributes == RecByte(entry_data, \h0B)
       IN  IF frame.i >= frame.dir_data.len \div 32
           THEN /\ WalkReturn
                /\ UNCHANGED <<rfVars, host_dirs, walk_log>>
           ELSE IF IsEndOfDirectory(first_byte)
           THEN /\ WalkReturn
                /\ UNCHANGED <<rfVars, host_dirs, walk_log>>
           ELSE IF attributes = LFN_ATTRIBUTES
           THEN LET live == first_byte # \hE5
                    sequence == first_byte % 32
                    fragment == decode_lfn_fragment(entry_data)
                    next == [frame EXCEPT
                               !.lfn_fragments =
                                   IF live THEN Append(@, <<sequence, fragment>>)
                                   ELSE @]
                IN  /\ WalkContinue(next)
                    /\ walk_log' = Append(walk_log,
                           LogEntry(frame,
                                    IF live THEN "fragment" ELSE "deleted_fragment",
                                    <<>>, <<>>))
                    /\ UNCHANGED <<rfVars, host_dirs>>
           ELSE LET is_deleted == first_byte = \hE5
                    is_dir == (attributes \div 16) % 2 = 1
                    size == UnpackU32LE(RecSlice(entry_data, \h1C, \h20))
                    cluster == UnpackU16LE(RecByte(entry_data, \h1A),
                                           RecByte(entry_data, \h1B))
                    long_name == AssembleLongName(frame.lfn_fragments)
                    final_name == ResolveName(entry_data, frame.lfn_fragments,
                                              is_deleted)
                    reset == ResetFragments(frame)
                    current_full_path == PathJoin(frame.dir_path, final_name)
                    parent_path == IF final_name = <<>> THEN current_full_path
                                   ELSE frame.dir_path
                IN  IF final_name = <<46>> \/ final_name = <<46, 46>>
                    THEN /\ WalkContinue(reset)
                         /\ walk_log' = Append(walk_log,
                                LogEntry(frame, "dot", long_name, final_name))
                         /\ UNCHANGED <<rfVars, host_dirs>>
                    ELSE IF is_dir
                    THEN IF cluster < 2
                         THEN /\ WalkContinue(reset)
                              /\ walk_log' = Append(walk_log,
                                     LogEntry(frame, "dir_skipped", long_name,
                                              final_name))
                              /\ UNCHANGED <<rfVars, host_dirs>>
                         ELSE /\ host_dirs' =
                                     IF RecursionError(Len(stack)) THEN host_dirs
                                     ELSE MakeDirs(host_dirs,
                                                   RecoveryPath(current_full_path))
                              /\ walk_log' = Append(walk_log,
                                     LogEntry(frame, "dir", long_name, final_name))
                              /\ UNCHANGED rfVars
                              /\ IF RecursionError(Len(stack))
                                    \/ MakeDirsFails(RecoveryPath(current_full_path))
                                 THEN WalkCrash(reset)
                                 ELSE /\ stack' =
                                          <<NewFrame(ClusterLba(cluster),
                                                     current_full_path), reset>>
                                              \o Tail(stack)
                                      /\ pc' = "walk_entry"
                    ELSE IF size > 0 /\ cluster >= 2
                    THEN /\ host_dirs' =
                                IF RecursionError(Len(stack)) THEN host_dirs
                                ELSE MakeDirs(host_dirs, RecoveryPath(parent_path))
                         /\ walk_log' = Append(walk_log,
                                LogEntry(frame, "file", long_name, final_name))
                         /\ IF RecursionError(Len(stack))
                               \/ MakeDirsFails(RecoveryPath(parent_path))
                            THEN /\ WalkCrash(reset)
                                 /\ UNCHANGED rfVars
                            ELSE /\ stack' = <<reset>> \o Tail(stack)
                                 /\ CallRecover(cluster, size,
                                                RecoveryPath(current_full_path))
                    ELSE /\ WalkContinue(reset)
                         /\ walk_log' = Append(walk_log,
                                LogEntry(frame, "file_skipped", long_name,
                                         final_name))
                         /\ UNCHANGED <<rfVars, host_dirs>>

\* FAT16Recover.py:296, 202: recover_file is back, its result is not looked
\* at, and the loop goes on
WalkResume ==
    /\ pc = "rf_done"
    /\ UNCHANGED <<diskVars, traceVars, rfVars, host_files, host_dirs, walk_log>>
    /\ WalkContinue(Head(stack))

----------------------------------------------------------------------------
(* The bytes of the image outside its directories *)

\* The byte of the image at byte offset o: sectors the image does not spell
\* out are all zero
ImageByte(o) ==
    LET holders == { l \in DOMAIN image_sectors :
                       /\ l * SECTOR_SIZE <= o
                       /\ o < l * SECTOR_SIZE + BufLen(image_sectors[l]) }
    IN  IF holders = {} THEN 0
        ELSE LET l == CHOOSE x \in holders : \A y \in holders : x >= y
             IN  ByteAt(image_sectors[l], o - l * SECTOR_SIZE)

\* data[a:b] of bytes read from the image, as a sequence of bytes
DataSlice(data, a, b) ==
    [k \in 1..(Min(b, data.len) - a) |-> ImageByte(data.off + a + k - 1)]

\* The bytes read from the image as a buffer [len, nz]
DataBuffer(data) ==
    LET held == UNION { { l * SECTOR_SIZE + o : o \in DOMAIN image_sectors[l].nz } :
                        l \in DOMAIN image_sectors }
        inside == { o \in held : /\ o >= data.off
                                  /\ o < data.off + data.len
                                  /\ ImageByte(o) # 0 }
    IN  [len |-> data.len,
         nz  |-> [o \in { x - data.off : x \in inside } |-> ImageByte(o + data.off)]]

\* A sector that holds the given bytes from offset first on and zeros
\* elsewhere
SectorWith(first, bytes) ==
    [len |-> SECTOR_SIZE,
     nz  |-> [o \in { first + k - 1 : k \in { j \in 1..Len(bytes) : bytes[j] # 0 } } |->
              bytes[o - first + 1]]]

----------------------------------------------------------------------------
(* MBR.py: the partition table decoder *)

MBR_SIZE == 512
PARTITION_TABLE_OFFSET == \h1BE
PARTITION_ENTRY_SIZE == 16
SIGNATURE_OFFSET == \h1FE
SIGNATURE == <<\h55, \hAA>>

\* MBR.py:21-30 and PARTITION_TYPES.get(type_id, 'Unknown')
PartitionTypeDescription(type_id) ==
    CASE type_id = \h04 -> "FAT16 (less than 32MB)"
      [] type_id = \h06 -> "FAT16"
      [] type_id = \h0E -> "FAT16 LBA"
      [] type_id = \h0B -> "FAT32"
      [] type_id = \h0C -> "FAT32 LBA"
      [] type_id = \h07 -> "NTFS / exFAT / HPFS"
      [] type_id = \h05 -> "Extended DOS Partition"
      [] type_id = \h0F -> "Extended LBA Partition"
      [] OTHER -> "Unknown"

\* One upper-case hexadecimal digit, as a code point
HexDigit(d) == IF d < 10 THEN 48 + d ELSE 55 + d

\* f"0x{v:02X}" of a byte, as a sequence of code points
FormatHex02X(v) == <<48, 120, HexDigit(v \div 16), HexDigit(v % 16)>>

\* MBR.py:34-51: the first MBR_SIZE bytes of the image, or None
read_mbr_from_file ==
    LET got == Min(image_len, MBR_SIZE)
    IN  IF got # MBR_SIZE THEN NoData
        ELSE [ok |-> TRUE, off |-> 0, len |-> got]

\* A test that takes a slot for unused when its type byte is zero
IsUnusedType(entry_data) == entry_data[5] = 0

\* MBR.py:80
IsEmptySlot(entry_data) ==
    entry_data = [k \in 1..PARTITION_ENTRY_SIZE |-> 0]

\* MBR.py:84-95: struct.unpack('<B3sB3sII', entry_data) and the descriptor
\* made of it
PartitionDescriptor(i, entry_data) ==
    LET flag == entry_data[1]
        type_id == entry_data[5]
        start_lba == UnpackU32LE(SubSeq(entry_data, 9, 12))
        size_sectors == UnpackU32LE(SubSeq(entry_data, 13, 16))
    IN  [index |-> i + 1,
         bootable |-> flag = \h80,
         type_id |-> FormatHex02X(type_id),
         type_description |-> PartitionTypeDescription(type_id),
         start_lba |-> start_lba,
         size_sectors |-> size_sectors,
         size_bytes |-> size_sectors * 512]

\* MBR.py:53-98
parse_mbr(mbr_data) ==
    IF mbr_data.len # MBR_SIZE
    THEN [raised |-> "ValueError", signature_valid |-> FALSE, partitions |-> <<>>]
    ELSE LET signature == DataSlice(mbr_data, SIGNATURE_OFFSET, SIGNATURE_OFFSET + 2)
             partition_table == DataSlice(mbr_data, PARTITION_TABLE_OFFSET,
                                          SIGNATURE_OFFSET)
             entry(i) == SubSeq(partition_table, i * PARTITION_ENTRY_SIZE + 1,
                                i * PARTITION_ENTRY_SIZE + PARTITION_ENTRY_SIZE)
             kept == SelectSeq(<<0, 1, 2, 3>>, LAMBDA i : ~IsEmptySlot(entry(i)))
         IN  [raised |-> "no",
              signature_valid |-> signature = SIGNATURE,
              partitions |-> [k \in 1..Len(kept) |->
                                PartitionDescriptor(kept[k], entry(kept[k]))]]

\* MBR.py:104-108: the script reads the boot record and decodes it
MbrScript ==
    /\ pc = "mbr_entry"
    /\ pc' = "mbr_done"
    /\ LET mbr_data == read_mbr_from_file
       IN  parsed_result' = IF NotData(mbr_data) THEN parsed_result
                            ELSE parse_mbr(mbr_data)
    /\ UNCHANGED <<imageVars, globalVars, traceVars, rfVars, walkVars,
                   host_files, host_dirs>>

----------------------------------------------------------------------------
(* Boot.py: the boot sector decoder *)

\* Boot.py:80-137; the division of line 117 raises when the boot sector
\* gives 0 bytes per sector
parse_fat16_boot_sector(boot_data, partition_start_lba) ==
    LET word(o) == LET b == DataSlice(boot_data, o, o + 2)
                   IN  UnpackU16LE(b[1], b[2])
        byte(o) == DataSlice(boot_data, o, o + 1)[1]
        bytes_per_sector == word(\h0B)
        root_entries == word(\h11)
        root_size_bytes == root_entries * 32
        first_fat_sector == partition_start_lba + word(\h0E)
        root_dir_sector == first_fat_sector + byte(\h10) * word(\h16)
    IN  IF bytes_per_sector = 0
        THEN [raised |-> "ZeroDivisionError"]
        ELSE LET root_size_sectors ==
                     (root_size_bytes + bytes_per_sector - 1) \div bytes_per_sector
             IN  [raised |-> "no",
                  bytes_per_sector |-> bytes_per_sector,
                  sectors_per_cluster |-> byte(\h0D),
                  reserved_sectors |-> word(\h0E),
                  num_fats |-> byte(\h10),
                  root_entry_count |-> root_entries,
                  root_size_bytes |-> root_size_bytes,
                  root_size_sectors |-> root_size_sectors,
                  fat_size_sectors |-> word(\h16),
                  first_fat_sector |-> first_fat_sector,
                  root_dir_sector |-> root_dir_sector,
                  data_region_sector |-> root_dir_sector + root_size_sectors]

----------------------------------------------------------------------------
(* setup_disk_params and run_recovery_tool *)

\* None, or an empty bytes object
NoBuffer == [len |-> 0, nz |-> <<>>]

\* FAT16Recover.py:41-78 fails: the globals assigned so far keep their new
\* values
SetupFails ==
    pc' = "setup_failed"

\* FAT16Recover.py:41-78
SetupDiskParams ==
    /\ pc = "run_entry"
    /\ UNCHANGED <<imageVars, parsed_result, traceVars, rfVars, walkVars,
                   host_files, host_dirs>>
    /\ LET mbr_data == read_sector(0, 1)
       IN  IF NotData(mbr_data)
              \/ DataSlice(mbr_data, \h1FE, \h200) # <<\h55, \hAA>>
           THEN /\ SetupFails
                /\ UNCHANGED globalVars
           ELSE
           LET entry_data == DataSlice(mbr_data, \h1BE, \h1BE + 16)
               start_lba == UnpackU32LE(SubSeq(entry_data, 9, 12))
               vbr_data == read_sector(start_lba, 1)
           IN  /\ PARTITION_START_LBA' = start_lba
               /\ IF NotData(vbr_data)
                  THEN /\ SetupFails
                       /\ UNCHANGED <<GLOBAL_FAT_DATA, SECTORS_PER_CLUSTER,
                                      DATA_REGION_START_LBA, ROOT_DIR_START_LBA,
                                      ROOT_DIR_SECTORS, RESERVED_SECTORS, NUM_FATS,
                                      FAT_SIZE_SECTORS, FAT1_START_LBA>>
                  ELSE
                  LET word(o) == LET b == DataSlice(vbr_data, o, o + 2)
                                 IN  UnpackU16LE(b[1], b[2])
                      root_entries == word(\h11)
                      root_dir_sectors ==
                          (root_entries * 32 + SECTOR_SIZE - 1) \div SECTOR_SIZE
                      fat1_start_lba == start_lba + word(\h0E)
                      root_dir_start_lba ==
                          fat1_start_lba
                              + DataSlice(vbr_data, \h10, \h11)[1] * word(\h16)
                      fat_data == read_sector(fat1_start_lba, word(\h16))
                  IN  /\ SECTORS_PER_CLUSTER' = DataSlice(vbr_data, \h0D, \h0E)[1]
                      /\ RESERVED_SECTORS' = word(\h0E)
                      /\ NUM_FATS' = DataSlice(vbr_data, \h10, \h11)[1]
                      /\ FAT_SIZE_SECTORS' = word(\h16)
                      /\ ROOT_DIR_SECTORS' = root_dir_sectors
                      /\ FAT1_START_LBA' = fat1_start_lba
                      /\ ROOT_DIR_START_LBA' = root_dir_start_lba
                      /\ DATA_REGION_START_LBA' = root_dir_start_lba + root_dir_sectors
                      /\ GLOBAL_FAT_DATA' = IF NotData(fat_data) THEN NoBuffer
                                            ELSE DataBuffer(fat_data)
                      /\ IF NotData(fat_data)
                         THEN SetupFails
                         ELSE pc' = "setup_ok"

\* FAT16Recover.py:303-305: setup failed and the run ends without a walk
RunAbort ==
    /\ pc = "setup_failed"
    /\ pc' = "run_done"
    /\ UNCHANGED <<diskVars, traceVars, rfVars, walkVars, host_files, host_dirs>>

\* FAT16Recover.py:308-315: the recovery root is made and the walk is
\* called on the root directory
RunStart ==
    /\ pc = "setup_ok"
    /\ host_dirs' = MakeDirs(host_dirs, <<RECOVERY_DIR>>)
    /\ stack' = <<NewFrame(ROOT_DIR_START_LBA, <<>>)>>
    /\ pc' = "walk_entry"
    /\ UNCHANGED <<diskVars, traceVars, rfVars, walk_log, host_files>>

----------------------------------------------------------------------------
(* The calls the model starts from *)

\* FAT16Recover.py:13-21: the globals as the module sets them when loaded
GlobalsUnset ==
    /\ SECTORS_PER_CLUSTER = 0
    /\ DATA_REGION_START_LBA = 0
    /\ ROOT_DIR_START_LBA = 0
    /\ ROOT_DIR_SECTORS = 0
    /\ PARTITION_START_LBA = 0
    /\ RESERVED_SECTORS = 0
    /\ NUM_FATS = 0
    /\ FAT_SIZE_SECTORS = 0
    /\ FAT1_START_LBA = 0

\* The globals of scenario S2 of the specification that the fixed geometry
\* (root directory at LBA 519) comes from
GlobalsOfS2 ==
    /\ PARTITION_START_LBA = 39
    /\ RESERVED_SECTORS = 8
    /\ NUM_FATS = 2
    /\ FAT_SIZE_SECTORS = 236
    /\ FAT1_START_LBA = 47

\* The boot record, the boot sector and the on-disk FAT are not spelled out
NoSectors == [l \in {} |-> [len |-> 0, nz |-> <<>>]]

\* MBR.py has not run
NoResult == [raised |-> "no", signature_valid |-> FALSE, partitions |-> <<>>]

\* No call of parse_and_recover_directory is running
WalkIdle ==
    /\ stack = <<>>
    /\ walk_log = <<>>

NoDirectories == [l \in {} |-> <<>>]

RecoverIdle ==
    /\ rf_start_cluster = 0
    /\ file_size = 0
    /\ output_path = <<>>
    /\ cluster_chain = <<>>
    /\ bytes_recovered = 0
    /\ cluster_index = 0
    /\ rf_result = "none"

\* A call of trace_fat_chain(start_cluster) on a loaded FAT
TraceInit ==
    /\ GLOBAL_FAT_DATA \in FatBuffers
    /\ image_len = 0
    /\ image_dirs = NoDirectories
    /\ image_sectors = NoSectors
    /\ parsed_result = NoResult
    /\ GlobalsUnset
    /\ RecoverIdle
    /\ WalkIdle
    /\ host_files = NoFiles
    /\ host_dirs = {}
    /\ start_cluster \in StartClusters
    /\ current_cluster = start_cluster
    /\ chain = <<>>
    /\ pc = "trace_loop"

TraceNext == TraceIter

TraceSpec == TraceInit /\ [][TraceNext]_vars

\* The interpreter runs the loop to its end: it takes a step whenever one is
\* possible.
FairTraceSpec == TraceSpec /\ WF_vars(TraceNext)


\* FAT entries 2..MaxRecoverCluster are drawn freely in these calls.
RecoverLinkClusters == 2..MaxRecoverCluster

RecoverFatBuffers ==
    { FatBuffer(1, [c \in {0, 1} \cup RecoverLinkClusters |->
                      IF c = 0 THEN \hFFF8 ELSE IF c = 1 THEN \hFFFF ELSE e[c]]) :
      e \in [RecoverLinkClusters ->
                {FAT_FREE, \h0001, FAT_EOC_LAST} \cup RecoverLinkClusters] }

\* The data region of scenario S2 of the specification; a cluster of 0, 1 or
\* 8 sectors (the byte at VBR offset 0x0D is not validated by setup).
RecoverGeometries ==
    { [spc |-> n, root_lba |-> 519, root_sectors |-> 32, data_lba |-> 551] :
      n \in {0, 1, 8} }

\* Images that end after the first sector or the first 8 sectors of the data
\* region, or far behind it.
RecoverImageLens == { (551 + n) * SECTOR_SIZE : n \in {1, 8, 4096} }

RecoverStartClusters == {0, \h0100} \cup RecoverLinkClusters

RecoverFileSizes == {0, 1, 4096, 4099, 30000}

RecoverInit ==
    /\ GLOBAL_FAT_DATA \in RecoverFatBuffers
    /\ image_len \in RecoverImageLens
    /\ \E g \in RecoverGeometries :
         /\ SECTORS_PER_CLUSTER = g.spc
         /\ DATA_REGION_START_LBA = g.data_lba
         /\ ROOT_DIR_START_LBA = g.root_lba
         /\ ROOT_DIR_SECTORS = g.root_sectors
    \* a partition at LBA 509 with 8 reserved sectors and two FATs of the
    \* size of the buffer
    /\ PARTITION_START_LBA = 509
    /\ RESERVED_SECTORS = 8
    /\ NUM_FATS = 2
    /\ FAT_SIZE_SECTORS = BufLen(GLOBAL_FAT_DATA) \div SECTOR_SIZE
    /\ FAT1_START_LBA = 517
    /\ image_dirs = NoDirectories
    /\ image_sectors = NoSectors
    /\ parsed_result = NoResult
    /\ WalkIdle
    /\ host_dirs = {}
    /\ start_cluster = 0
    /\ current_cluster = 0
    /\ chain = <<>>
    /\ rf_start_cluster \in RecoverStartClusters
    /\ file_size \in RecoverFileSizes
    /\ output_path = << <<70>> >>
    /\ cluster_chain = <<>>
    /\ bytes_recovered = 0
    /\ cluster_index = 0
    /\ rf_result = "none"
    /\ host_files = NoFiles
    /\ pc = "rf_entry"

RecoverNext == RecoverEntry \/ TraceIter \/ RecoverOpen \/ RecoverCluster

RecoverSpec == RecoverInit /\ [][RecoverNext]_vars


(* The images a walk starts from *)

\* "hell", "o.txt", "~", "dead"
TextHell == <<104, 101, 108, 108>>
TextOTxt == <<111, 46, 116, 120, 116>>
TextTilde == <<126>>
TextDead == <<100, 101, 97, 100>>

\* 8.3 names, padded with spaces
Name11(base, ext) ==
    [k \in 1..11 |-> IF k <= Len(base) THEN base[k]
                     ELSE IF k >= 9 /\ k - 8 <= Len(ext) THEN ext[k - 8]
                     ELSE 32]

\* The records a root directory of the model is made of
WalkRecords ==
    { ZeroRecord,
      LfnRecord(\h00, TextHell),                       \* first byte 0x00, attributes 0x0F
      LfnRecord(\h01, TextHell),
      LfnRecord(\h42, TextOTxt),
      LfnRecord(\h03, TextTilde),
      LfnRecord(\hE5, TextDead),                       \* deleted long-name record
      SfnRecord(Name11(<<70>>, <<66, 73, 78>>), \h20, 2, 4099),         \* F.BIN
      SfnRecord(Name11(<<\hE5, 95, 114, 101, 115, 95>>, <<>>), \h20, 3, 1),
      SfnRecord(Name11(<<83, 85, 66>>, <<>>), \h10, 4, 0),              \* SUB
      SfnRecord(Name11(<<86, 79, 76>>, <<>>), \h08, 0, 0) }             \* label VOL

RootDirectories ==
    UNION { [1..n -> WalkRecords] : n \in 1..MaxRecords }

\* The subdirectory at cluster 4: ".", ".." and the file G.TXT
SubDirectory ==
    << SfnRecord(Name11(<<46>>, <<>>), \h10, 4, 0),
       SfnRecord(Name11(<<46, 46>>, <<>>), \h10, 0, 0),
       SfnRecord(Name11(<<71>>, <<84, 88, 84>>), \h20, 5, 1) >>

\* 2 -> 3 -> end of chain, 3 free-standing, 4 and 5 one cluster each
WalkFat ==
    FatBuffer(236, [c \in 0..5 |->
                    IF c = 0 THEN \hFFF8 ELSE IF c = 2 THEN 3 ELSE \hFFFF])

\* The geometry of scenario S2: root directory at LBA 519, 32 sectors, data
\* region at LBA 551, 8 sectors per cluster.
WalkInit ==
    /\ GLOBAL_FAT_DATA = WalkFat
    /\ SECTORS_PER_CLUSTER = 8
    /\ ROOT_DIR_START_LBA = 519
    /\ ROOT_DIR_SECTORS = 32
    /\ DATA_REGION_START_LBA = 551
    /\ GlobalsOfS2
    /\ image_sectors = NoSectors
    /\ parsed_result = NoResult
    \* the image ends behind cluster 3 or far behind the clusters in use
    /\ image_len \in { (551 + n) * SECTOR_SIZE : n \in {16, 4096} }
    /\ \E root \in RootDirectories :
         image_dirs = [l \in {519, 567} |-> IF l = 519 THEN root ELSE SubDirectory]
    /\ start_cluster = 0
    /\ current_cluster = 0
    /\ chain = <<>>
    /\ RecoverIdle
    /\ stack = <<NewFrame(ROOT_DIR_START_LBA, <<>>)>>
    /\ walk_log = <<>>
    /\ host_files = NoFiles
    /\ host_dirs = {<<RECOVERY_DIR>>}
    /\ pc = "walk_entry"

Next ==
    \/ WalkEnter
    \/ WalkRecord
    \/ WalkResume
    \/ RecoverEntry
    \/ TraceIter
    \/ RecoverOpen
    \/ RecoverCluster

\* FAT16Recover.py:315: the walk of run_recovery_tool from the root directory
Spec == WalkInit /\ [][Next]_vars


(* The boot records MBR.py is run on *)

\* Partition entries: an unused slot; the entry of scenario S1 of the
\* specification (bootable, type 0x06, start 39, 0x001FFFC0 sectors); a
\* FAT32 entry with start 0x12345678 and 0x003FFFFF sectors (the model's
\* integers end at 2^31 - 1, and size_bytes is 512 times the sectors); and
\* an entry of which only the flag byte, 0x81, is set.
MbrEntries ==
    { [k \in 1..16 |-> 0],
      <<\h80, \h01, \h01, \h00, \h06, \hFE, \h3F, \h02,
        \h27, \h00, \h00, \h00, \hC0, \hFF, \h1F, \h00>>,
      <<\h00, \h00, \h00, \h00, \h0B, \h00, \h00, \h00,
        \h78, \h56, \h34, \h12, \hFF, \hFF, \h3F, \h00>>,
      <<\h81>> \o [k \in 1..15 |-> 0] }

\* The last two bytes of sector 0: the signature, its bytes swapped, zeros
MbrSignatures == { <<\h55, \hAA>>, <<\hAA, \h55>>, <<0, 0>> }

\* Sector 0 with the given partition table and last two bytes
BootRecord(table, sig) ==
    SectorWith(PARTITION_TABLE_OFFSET,
               table[1] \o table[2] \o table[3] \o table[4] \o sig)

BootRecords ==
    { BootRecord(t, g) : t \in [1..4 -> MbrEntries], g \in MbrSignatures }

\* A run of MBR.py on an image of 100 bytes or of 2 MiB
MbrInit ==
    /\ image_len \in {100, 4096 * SECTOR_SIZE}
    /\ \E b \in BootRecords : image_sectors = [l \in {0} |-> b]
    /\ image_dirs = NoDirectories
    /\ parsed_result = NoResult
    /\ GLOBAL_FAT_DATA = NoBuffer
    /\ GlobalsUnset
    /\ RecoverIdle
    /\ WalkIdle
    /\ host_files = NoFiles
    /\ host_dirs = {}
    /\ start_cluster = 0
    /\ current_cluster = 0
    /\ chain = <<>>
    /\ pc = "mbr_entry"

MbrNext == MbrScript

MbrSpec == MbrInit /\ [][MbrNext]_vars

(* The images a run of the recovery tool starts from *)

\* A partition entry of the given type that starts at the given LBA
PartitionEntry(type_id, start_lba) ==
    <<\h80, 0, 0, 0, type_id, 0, 0, 0>> \o PackU32LE(start_lba)
        \o PackU32LE(2097088)

UnusedEntry == [k \in 1..16 |-> 0]

\* Slot 1 holds a FAT16 or an NTFS partition at LBA 39, a FAT32 partition
\* at LBA 2048, or nothing; slot 2 holds nothing or a FAT16 partition at
\* LBA 39; slots 3 and 4 are unused.
RunBootRecords ==
    { BootRecord(<<e1, e2, UnusedEntry, UnusedEntry>>, g) :
        e1 \in { PartitionEntry(\h06, 39), PartitionEntry(\h07, 39),
                 PartitionEntry(\h0B, 2048), UnusedEntry },
        e2 \in { UnusedEntry, PartitionEntry(\h06, 39) },
        g \in { <<\h55, \hAA>>, <<0, 0>> } }

\* The boot sector of scenario S2 of the specification, with the given
\* bytes per sector, sectors per cluster and root entry count: 8 reserved
\* sectors, 2 FATs of 236 sectors
BootSector(bytes_per_sector, sectors_per_cluster, root_entries) ==
    SectorWith(\h0B, PackU16LE(bytes_per_sector) \o <<sectors_per_cluster>>
                         \o PackU16LE(8)
                         \o <<2>> \o PackU16LE(root_entries) \o <<0, 0, \hF8>>
                         \o PackU16LE(236))

\* 8, 3 or no sectors per cluster
RunBootSectors ==
    { BootSector(b, c, r) : b \in {512, 1024}, c \in {8, 3, 0}, r \in {512, 16} }

\* The FAT of WalkInit as it lies on the disk
DiskFat == WalkFat

\* A run of the tool on an image with a boot record, a boot sector at LBA
\* 39, the FAT at LBA 47, a root directory at LBA 519 that holds SUB, F.BIN
\* and a file with the name of the image, 2gb.dd, and the subdirectory at
\* cluster 4.  The image ends behind its data,
\* inside the FAT, or before the boot sector.
RunInit ==
    /\ image_len \in { n * SECTOR_SIZE : n \in {551 + 4096, 100, 20} }
    /\ \E m \in RunBootRecords, v \in RunBootSectors :
         image_sectors = [l \in {0, 39, 47} |->
                            IF l = 0 THEN m ELSE IF l = 39 THEN v ELSE DiskFat]
    /\ image_dirs = [l \in {519, 567} |->
                       IF l = 519
                       THEN << SfnRecord(Name11(<<83, 85, 66>>, <<>>), \h10, 4, 0),
                               SfnRecord(Name11(<<70>>, <<66, 73, 78>>), \h20, 2, 4099),
                               SfnRecord(Name11(<<50, 103, 98>>, <<100, 100>>),
                                         \h20, 3, 1) >>
                       ELSE SubDirectory]
    /\ parsed_result = NoResult
    /\ GLOBAL_FAT_DATA = NoBuffer
    /\ GlobalsUnset
    /\ RecoverIdle
    /\ WalkIdle
    /\ host_files = NoFiles
    /\ host_dirs = {}
    /\ start_cluster = 0
    /\ current_cluster = 0
    /\ chain = <<>>
    /\ pc = "run_entry"

RunNext == SetupDiskParams \/ RunAbort \/ RunStart \/ Next

\* FAT16Recover.py:321-322: run_recovery_tool from its first line
RunSpec == RunInit /\ [][RunNext]_vars

(* Walks over one root entry of any kind *)

\* The 11 name bytes of the entries: F.BIN; the deleted \xE5_res_ and
\* \xE5AB.C; "." and ".."; eleven blanks; 2gb.dd; blank, '?', 0xC8; and
\* 'A', 0x00, 'B'.
EntryNames ==
    { Name11(<<70>>, <<66, 73, 78>>),
      Name11(<<\hE5, 95, 114, 101, 115, 95>>, <<>>),
      Name11(<<\hE5, 65, 66>>, <<67>>),
      Name11(<<46>>, <<>>),
      Name11(<<46, 46>>, <<>>),
      Name11(<<>>, <<>>),
      Name11(<<50, 103, 98>>, <<100, 100>>),
      Name11(<<32, 63, \hC8>>, <<>>),
      Name11(<<65, 0, 66>>, <<>>) }

\* archive, directory, volume label, volume label with the directory bit
EntryAttributes == {\h20, \h10, \h08, \h18}

EntryClusters == {0, 1, 2, 4, 6}

EntrySizes == {0, 1}

EntryRecords ==
    { SfnRecord(n, a, c, z) :
        n \in EntryNames, a \in EntryAttributes,
        c \in EntryClusters, z \in EntrySizes }

\* The directory at cluster 6: its only entry, L, is a directory that
\* starts at cluster 6
LoopDirectory == << SfnRecord(Name11(<<76>>, <<>>), \h10, 6, 0) >>

\* A walk of the volume of WalkInit whose root directory holds one entry
EntryInit ==
    /\ GLOBAL_FAT_DATA = WalkFat
    /\ SECTORS_PER_CLUSTER = 8
    /\ ROOT_DIR_START_LBA = 519
    /\ ROOT_DIR_SECTORS = 32
    /\ DATA_REGION_START_LBA = 551
    /\ GlobalsOfS2
    /\ image_sectors = NoSectors
    /\ parsed_result = NoResult
    /\ image_len \in { (551 + n) * SECTOR_SIZE : n \in {16, 4096} }
    /\ \E r \in EntryRecords :
         image_dirs = [l \in {519, 567, 583} |->
                         IF l = 519 THEN <<r>>
                         ELSE IF l = 567 THEN SubDirectory ELSE LoopDirectory]
    /\ start_cluster = 0
    /\ current_cluster = 0
    /\ chain = <<>>
    /\ RecoverIdle
    /\ stack = <<NewFrame(ROOT_DIR_START_LBA, <<>>)>>
    /\ walk_log = <<>>
    /\ host_files = NoFiles
    /\ host_dirs = {<<RECOVERY_DIR>>}
    /\ pc = "walk_entry"

EntrySpec == EntryInit /\ [][Next]_vars

(* Walks over a root directory of three entries *)

\* Entries named A: a file or a directory, at cluster 2 or 4, of 1 or 4099
\* bytes
SiblingRecords ==
    { SfnRecord(Name11(<<65>>, <<>>), a, c, z) :
        a \in {\h20, \h10}, c \in {2, 4}, z \in {1, 4099} }

\* A walk of the volume of WalkInit whose root directory holds two entries
\* named A and then the file Z at cluster 5.  The image ends behind cluster
\* 3, so that the block of cluster 4 cannot be read, or far behind the
\* clusters in use.
SiblingInit ==
    /\ GLOBAL_FAT_DATA = WalkFat
    /\ SECTORS_PER_CLUSTER = 8
    /\ ROOT_DIR_START_LBA = 519
    /\ ROOT_DIR_SECTORS = 32
    /\ DATA_REGION_START_LBA = 551
    /\ GlobalsOfS2
    /\ image_sectors = NoSectors
    /\ parsed_result = NoResult
    /\ image_len \in { (551 + n) * SECTOR_SIZE : n \in {16, 4096} }
    /\ \E r1 \in SiblingRecords, r2 \in SiblingRecords :
         image_dirs = [l \in {519, 567} |->
                         IF l = 519
                         THEN <<r1, r2, SfnRecord(Name11(<<90>>, <<>>), \h20, 5, 1)>>
                         ELSE SubDirectory]
    /\ start_cluster = 0
    /\ current_cluster = 0
    /\ chain = <<>>
    /\ RecoverIdle
    /\ stack = <<NewFrame(ROOT_DIR_START_LBA, <<>>)>>
    /\ walk_log = <<>>
    /\ host_files = NoFiles
    /\ host_dirs = {<<RECOVERY_DIR>>}
    /\ pc = "walk_entry"

SiblingSpec == SiblingInit /\ [][Next]_vars

----------------------------------------------------------------------------
(* Properties of trace_fat_chain *)

\* The statements below read the FAT by their own arithmetic, not through
\* the operators of the trace.
WordAt(cluster) ==
    ByteAt(GLOBAL_FAT_DATA, 2 * cluster)
        + 256 * ByteAt(GLOBAL_FAT_DATA, 2 * cluster + 1)

\* max_cluster: the index of the last entry of the FAT buffer
MaxClusterOfFat == (BufLen(GLOBAL_FAT_DATA) \div 2) - 1

InFat(cluster) == cluster >= 0 /\ cluster <= MaxClusterOfFat

NoRepeats(s) == \A i, j \in 1..Len(s) : i # j => s[i] # s[j]

\* The entry ends a chain as the specification describes it: free, bad, end of chain
\* or a pointer outside the FAT buffer.
EndsPath(cluster) ==
    LET w == WordAt(cluster)
    IN  \/ w = 0
        \/ w = 65527
        \/ w >= 65528 /\ w <= 65535
        \/ ~InFat(w)

\* The clusters met by following the links from cluster c for at most
\* fuel links.
RECURSIVE LinkPath(_, _)
LinkPath(c, fuel) ==
    IF fuel = 0 \/ ~InFat(c) \/ EndsPath(c)
    THEN <<c>>
    ELSE <<c>> \o LinkPath(WordAt(c), fuel - 1)

TraceDone == pc = "trace_done"

\* C1: trace_fat_chain terminates for every start cluster and every FAT
\* content, cyclic FATs included: the trace always eventually returns.
C1_TraceTerminates == <>TraceDone

\* C1 witness: a trace over a cycle (the start cluster is met again) returned.
C1_Witness ==
    /\ TraceDone
    /\ \E i \in 2..Len(chain) : chain[i] = start_cluster

\* C2: the chain returned never contains the same cluster number twice.
C2_NoRepeatInChain == TraceDone => NoRepeats(chain)

\* C3: the chain returned has at most as many elements as the length cap
\* (65,535 in the source, CHAIN_CAP here).
C3_ChainWithinCap == TraceDone => Len(chain) <= CHAIN_CAP

\* C4: every element c of a returned chain has 2 <= c <= max_cluster, and a
\* start cluster below 2 yields the empty chain.
C4_ChainElementsValid ==
    TraceDone =>
        /\ \A i \in 1..Len(chain) : 2 <= chain[i] /\ chain[i] <= MaxClusterOfFat
        /\ start_cluster < 2 => chain = <<>>

\* The links from the start cluster form an acyclic path shorter than the cap.
C5_Pre ==
    /\ start_cluster >= 2
    /\ InFat(start_cluster)
    /\ LET p == LinkPath(start_cluster, CHAIN_CAP)
       IN  /\ Len(p) < CHAIN_CAP
           /\ EndsPath(p[Len(p)])

\* C5: for a start cluster >= 2 inside the FAT whose links form an acyclic
\* path shorter than the cap, the chain returned is exactly that path: it
\* begins with the start cluster, each further element is the little-endian
\* FAT word of its predecessor, and the word of the last element is free,
\* bad, end of chain or points outside the FAT.
C5_ChainIsLinkPath ==
    (TraceDone /\ C5_Pre) =>
        /\ Len(chain) >= 1
        /\ chain[1] = start_cluster
        /\ \A i \in 1..(Len(chain) - 1) : chain[i + 1] = WordAt(chain[i])
        /\ EndsPath(chain[Len(chain)])
        /\ chain = LinkPath(start_cluster, CHAIN_CAP)

\* C5 witness: 2 -> 3, 3 -> 4, 4 -> 0xFFFF traced from 2 gives <<2, 3, 4>>.
C5_Witness ==
    /\ TraceDone
    /\ C5_Pre
    /\ WordAt(2) = 3 /\ WordAt(3) = 4 /\ WordAt(4) = 65535
    /\ start_cluster = 2
    /\ chain = <<2, 3, 4>>

----------------------------------------------------------------------------
(* Properties of recover_file *)

RecoverDone == pc = "rf_done"

\* What the output file holds, nothing when it does not exist
OutputContent ==
    IF FileExists(output_path) THEN host_files[output_path] ELSE <<>>

\* The payload of the i-th cluster of the chain, as the specification states it:
\* SECTORS_PER_CLUSTER sectors at data_region_lba + (c - 2) x
\* sectors_per_cluster, cut to what the recorded size leaves after i - 1
\* whole clusters.
C6_ExpectedPiece(i) ==
    LET bpc == SECTORS_PER_CLUSTER * 512
        lba == DATA_REGION_START_LBA + (cluster_chain[i] - 2) * SECTORS_PER_CLUSTER
        left == file_size - (i - 1) * bpc
    IN  [off |-> lba * 512, len |-> IF bpc <= left THEN bpc ELSE left]

\* C6: during every recover_file call the bytes written never exceed the
\* recorded size, and the output file holds the leading bytes of the cluster
\* payloads concatenated in chain order, the last one cut to what remains of
\* the size.
C6_WrittenIsPrefix ==
    FileExists(output_path) =>
        /\ PiecesLen(OutputContent) <= file_size
        /\ bytes_recovered = PiecesLen(OutputContent)
        /\ Len(OutputContent) <= Len(cluster_chain)
        /\ \A i \in 1..Len(OutputContent) : OutputContent[i] = C6_ExpectedPiece(i)

\* C6 witness: size 4,099 with 4,096-byte clusters and a chain of length 2
\* gives 4,096 + 3 bytes.
C6_Witness ==
    /\ RecoverDone
    /\ file_size = 4099
    /\ SECTORS_PER_CLUSTER = 8
    /\ Len(cluster_chain) = 2
    /\ Len(OutputContent) = 2
    /\ OutputContent[1].len = 4096
    /\ OutputContent[2].len = 3
    /\ PiecesLen(OutputContent) = 4099

\* C7: recover_file reports success only when the host file holds exactly
\* the recorded size.  (Stated for clusters of at least one sector, where the
\* geometry is not in question.)
C7_SuccessMeansComplete ==
    (RecoverDone /\ rf_result = TRUE /\ SECTORS_PER_CLUSTER >= 1) =>
        /\ FileExists(output_path)
        /\ PiecesLen(OutputContent) = file_size

\* The read of the first cluster of the chain fails
FirstClusterUnreadable ==
    /\ cluster_chain # <<>>
    /\ LET lba == DATA_REGION_START_LBA
                      + (cluster_chain[1] - 2) * SECTORS_PER_CLUSTER
       IN  \/ lba < 0
           \/ (lba + SECTORS_PER_CLUSTER) * 512 > image_len

\* C8: recover_file reports failure and leaves no host file when the start
\* cluster is below 2, the size is 0, the chain is empty or the first cluster
\* cannot be read; no zero-byte file is left behind.  (Stated for clusters of
\* at least one sector, where the geometry is not in question, and, for the
\* zero-byte file, for the calls in which the host refuses nothing.)
C8_FailureLeavesNoFile ==
    (RecoverDone /\ SECTORS_PER_CLUSTER >= 1) =>
        /\ (\/ rf_start_cluster < 2
            \/ file_size = 0
            \/ cluster_chain = <<>>
            \/ FirstClusterUnreadable)
           => (rf_result = FALSE /\ ~FileExists(output_path))
        /\ (FileExists(output_path) /\ rf_result = TRUE)
               => PiecesLen(OutputContent) > 0

----------------------------------------------------------------------------
(* Properties of parse_and_recover_directory *)

\* The records the image spells out at an LBA, in on-disk order
RecordsAt(lba) == IF lba \in DOMAIN image_dirs THEN image_dirs[lba] ELSE <<>>

\* C9: within one directory block the walker processes no record whose first
\* byte is 0x00 and no record that follows such a record: whatever the walker
\* did (fragment taken, name resolved, directory made and entered, file
\* recovered, entry skipped), it did to a record with no 0x00 record at or
\* before it.
C9_NothingPastEndMarker ==
    \A k \in 1..Len(walk_log) :
        LET e == walk_log[k]
            recs == RecordsAt(e.lba)
        IN  /\ e.index + 1 <= Len(recs)
            /\ \A j \in 1..(e.index + 1) : recs[j][1] # 0

\* C9 witness: a root directory with a pending fragment, then a record with
\* first byte 0x00 and attributes 0x0F, then a file entry; the walk is over
\* and did nothing but take the fragment.
C9_Witness ==
    /\ pc = "walk_done"
    /\ LET recs == RecordsAt(519)
       IN  /\ Len(recs) = 3
           /\ recs[1][1] = 1 /\ recs[1][12] = 15
           /\ recs[2][1] = 0 /\ recs[2][12] = 15
           /\ recs[3][1] = 70 /\ recs[3][12] = 32
    /\ Len(walk_log) = 1
    /\ walk_log[1].what = "fragment"
    /\ host_files = NoFiles
    /\ host_dirs = {<<RECOVERY_DIR>>}

\* The long-name records that lie directly before record idx (1-based) of
\* a directory
LfnRunBefore(recs, idx) ==
    { j \in 1..(idx - 1) : \A m \in j..(idx - 1) : recs[m][12] = 15 }

\* They are live and carry the distinct sequence numbers 1..k
LfnRunWellFormed(recs, run) ==
    /\ run # {}
    /\ \A j \in run : recs[j][1] # 229 /\ recs[j][1] # 0
    /\ \A j1, j2 \in run : j1 # j2 => recs[j1][1] % 32 # recs[j2][1] % 32
    /\ { recs[j][1] % 32 : j \in run } = 1..Cardinality(run)

\* Their decoded texts, concatenated in ascending sequence number from s on
RECURSIVE TextsBySequence(_, _, _)
TextsBySequence(recs, run, s) ==
    IF s > Cardinality(run) THEN <<>>
    ELSE decode_lfn_fragment(recs[CHOOSE j \in run : recs[j][1] % 32 = s])
             \o TextsBySequence(recs, run, s + 1)

IsShortNameEvent(e) ==
    e.what \in {"dot", "dir", "dir_skipped", "file", "file_skipped"}

\* C10: long-name assembly does not depend on the on-disk order of the
\* fragments: for live long-name records with distinct sequence numbers 1..k
\* before a short-name entry, in any on-disk order, the assembled name is
\* the concatenation of their decoded texts in ascending order of
\* (sequence byte & 0x1F).
C10_AssemblyBySequence ==
    \A k \in 1..Len(walk_log) :
        LET e == walk_log[k]
            recs == RecordsAt(e.lba)
            run == LfnRunBefore(recs, e.index + 1)
        IN  (IsShortNameEvent(e) /\ LfnRunWellFormed(recs, run))
                => e.long_name = TextsBySequence(recs, run, 1)

\* C10 witness: sequence byte 0x42 with "o.txt" lies before 0x01 with "hell",
\* and the short-name entry behind them got the long name "hello.txt".
C10_Witness ==
    \E k \in 1..Len(walk_log) :
        LET e == walk_log[k]
            recs == RecordsAt(e.lba)
        IN  /\ e.index = 2
            /\ IsShortNameEvent(e)
            /\ recs[1][1] = 66 /\ recs[1][12] = 15
            /\ recs[2][1] = 1 /\ recs[2][12] = 15
            /\ decode_lfn_fragment(recs[1]) = <<111, 46, 116, 120, 116>>
            /\ decode_lfn_fragment(recs[2]) = <<104, 101, 108, 108>>
            /\ e.long_name = <<104, 101, 108, 108, 111, 46, 116, 120, 116>>

\* The name the 11 short-name bytes of a record spell when read plainly:
\* base, then "." and the extension when there is one, trailing blanks
\* dropped from both
PlainShortName(rec) ==
    LET base == RStrip(SubSeq(rec, 1, 8))
        ext == RStrip(SubSeq(rec, 9, 11))
    IN  IF ext # <<>> THEN base \o <<46>> \o ext ELSE base

\* C11: name resolution prefers the long name: for every short-name entry
\* whose pending fragments assemble to a non-empty string the resolved name
\* is that string after sanitization, whatever the 11 short-name bytes are;
\* and a resolved name that differs from the sanitized long name occurs only
\* where the fragments are absent or assemble to the empty string.
C11_LongNamePreferred ==
    \A k \in 1..Len(walk_log) :
        LET e == walk_log[k]
        IN  IsShortNameEvent(e) =>
                /\ e.long_name # <<>> => e.name = Sanitize(e.long_name)
                /\ e.name # Sanitize(e.long_name) => e.long_name = <<>>

\* C11 witness: the entry F.BIN follows the fragment "hell" in the root
\* directory and resolved to "hell", which is not what its 11 bytes spell.
C11_Witness ==
    \E k \in 1..Len(walk_log) :
        LET e == walk_log[k]
            rec == RecordsAt(519)[e.index + 1]
        IN  /\ IsShortNameEvent(e)
            /\ e.lba = 519
            /\ PlainShortName(rec) = <<70, 46, 66, 73, 78>>
            /\ e.long_name = <<104, 101, 108, 108>>
            /\ e.name = <<104, 101, 108, 108>>

\* The 11 name bytes the short-name path works on: those of the record,
\* with the first one replaced in a deleted entry
C12_NameBytes(rec) ==
    LET raw == SubSeq(rec, 1, 11)
    IN  IF rec[1] = 229
        THEN <<IF rec[2] = 95 THEN 46 ELSE 95>> \o SubSeq(raw, 2, 11)
        ELSE raw

\* BASE.EXT, or BASE when the extension is empty, both decoded and
\* right-trimmed
C12_Joined(b) ==
    LET base == RStrip(DecodeAscii(SubSeq(b, 1, 8)))
        ext == RStrip(DecodeAscii(SubSeq(b, 9, 11)))
    IN  IF ext = <<>> THEN base ELSE base \o <<46>> \o ext

AtShortNameRecord ==
    /\ pc = "walk_loop"
    /\ stack # <<>>
    /\ LET f == Head(stack)
           recs == RecordsAt(f.start_lba)
       IN  /\ f.i < f.dir_data.len \div 32
           /\ f.i + 1 <= Len(recs)
           /\ recs[f.i + 1][1] # 0
           /\ recs[f.i + 1][12] # 15

\* The record it is at, and the fields of a record
RecordAtHand == RecordsAt(Head(stack).start_lba)[Head(stack).i + 1]
DirectoryBit(rec) == (rec[12] \div 16) % 2 = 1
StartClusterOf(rec) == rec[27] + 256 * rec[28]
SizeOf(rec) == rec[29] + 256 * rec[30] + 65536 * rec[31] + 16777216 * rec[32]

\* The step leaves the host, the arguments of recover_file and the depth of
\* the walk alone and goes on with the loop
StepDoesNothing ==
    /\ pc' = "walk_loop"
    /\ Len(stack') = Len(stack)
    /\ host_files' = host_files
    /\ host_dirs' = host_dirs
    /\ rfVars' = rfVars

\* The step is ended by an exception of the host or the interpreter that
\* nothing catches; no file is written
StepRaises ==
    /\ pc' = "crashed"
    /\ host_files' = host_files
    /\ rfVars' = rfVars

C20_DepthWithinCap == Len(stack) <= 64

VolumeLabelBit(rec) == (rec[12] \div 8) % 2 = 1

\* C18: a short-name entry with the volume-label bit 0x08 (and attributes
\* other than 0x0F) is always skipped, whatever its start cluster and size:
\* recover_file never runs for such an entry, and no call of the walker is
\* a recursion made for such an entry.
C18_VolumeLabelSkipped ==
    /\ pc \in {"rf_entry", "trace_loop", "trace_done", "rf_loop", "rf_done"}
           => ~VolumeLabelBit(RecordAtHand)
    /\ \A d \in 2..Len(stack) :
           ~VolumeLabelBit(RecordsAt(stack[d].start_lba)[stack[d].i + 1])

\* The fragments the live long-name records directly before record idx
\* (1-based) of a block give, in on-disk order
RECURSIVE PendingBefore(_, _)
PendingBefore(recs, idx) ==
    IF idx <= 1 \/ recs[idx - 1][12] # 15 THEN <<>>
    ELSE IF recs[idx - 1][1] = 229 THEN PendingBefore(recs, idx - 1)
    ELSE Append(PendingBefore(recs, idx - 1),
                <<recs[idx - 1][1] % 32, decode_lfn_fragment(recs[idx - 1])>>)

\* C19: pending long-name fragments apply only to the first short-name
\* record that follows them in the same directory block.  The accumulator of
\* the call that is in its loop holds exactly the live long-name records
\* that lie directly before the record the call is at: it is empty at the
\* first record of every directory walk and after every short-name record,
\* skipped ones included.  The accumulator of every other call (one that is
\* entered but has not read its block, one that waits for a recursive call
\* or for recover_file) is empty, so a recursive call neither sees nor
\* changes what its parent holds.
C19_FragmentsAreLocal ==
    \A d \in 1..Len(stack) :
        LET f == stack[d]
            recs == RecordsAt(f.start_lba)
        IN  IF d = 1 /\ pc = "walk_loop"
            THEN f.lfn_fragments =
                     IF f.i + 1 <= Len(recs) + 1
                     THEN PendingBefore(recs, f.i + 1) ELSE <<>>
            ELSE f.lfn_fragments = <<>>

\* C19 witness: the root directory is the fragment "hell" and then the
\* directory SUB; the walker has resolved SUB to "hell", recursed, and is
\* past "." and ".." of the subdirectory with both accumulators empty.
C19_Witness ==
    /\ pc = "walk_loop"
    /\ Len(stack) = 2
    /\ stack[1].i = 2
    /\ stack[1].lfn_fragments = <<>>
    /\ stack[2].lfn_fragments = <<>>
    /\ stack[2].i = 1
    /\ RecordsAt(519)[1][12] = 15
    /\ walk_log[2].long_name = <<104, 101, 108, 108>>
    /\ walk_log[2].what = "dir"

----------------------------------------------------------------------------
(* Properties of the boot record decoders *)

\* Byte o of sector 0 of the image
Sector0Byte(o) ==
    IF 0 \in DOMAIN image_sectors /\ o \in DOMAIN image_sectors[0].nz
    THEN image_sectors[0].nz[o] ELSE 0

\* Byte k (from 0) of partition slot n (from 1)
SlotByte(n, k) == Sector0Byte(446 + 16 * (n - 1) + k)

\* The little-endian 32-bit value at bytes k..k+3 of slot n
SlotDword(n, k) ==
    SlotByte(n, k) + 256 * SlotByte(n, k + 1) + 65536 * SlotByte(n, k + 2)
        + 16777216 * SlotByte(n, k + 3)

UsedSlots == { n \in 1..4 : \E k \in 0..15 : SlotByte(n, k) # 0 }

\* The value a text "0xHH" stands for
HexDigitValue(c) == IF c >= 65 THEN c - 55 ELSE c - 48
HexValue(text) == 16 * HexDigitValue(text[3]) + HexDigitValue(text[4])

\* C13: for every 512-byte sector 0, with or without the 0x55 0xAA
\* signature, parse_mbr returns without raising one descriptor for each of
\* the four 16-byte entries at 0x1BE that is not all zero, in table order
\* and with its 1-based slot number, with bootable = (boot flag = 0x80),
\* type_id, start_lba and sector count decoded little-endian; all-zero
\* entries are skipped, and signature_valid tells whether the signature is
\* there.
C13_ParseMbrDecodesTable ==
    (pc = "mbr_done" /\ image_len >= 512) =>
        LET parts == parsed_result.partitions
        IN  /\ parsed_result.raised = "no"
            /\ parsed_result.signature_valid
                   = (Sector0Byte(510) = 85 /\ Sector0Byte(511) = 170)
            /\ Len(parts) = Cardinality(UsedSlots)
            /\ { parts[j].index : j \in 1..Len(parts) } = UsedSlots
            /\ \A j \in 1..(Len(parts) - 1) : parts[j].index < parts[j + 1].index
            /\ \A j \in 1..Len(parts) :
                   LET n == parts[j].index
                   IN  /\ parts[j].bootable = (SlotByte(n, 0) = 128)
                       /\ Len(parts[j].type_id) = 4
                       /\ HexValue(parts[j].type_id) = SlotByte(n, 4)
                       /\ parts[j].start_lba = SlotDword(n, 8)
                       /\ parts[j].size_sectors = SlotDword(n, 12)

\* C13 witness: a sector 0 without the signature whose slot 1 is unused,
\* slot 2 holds the entry of scenario S1 and slot 4 holds only a flag byte:
\* two descriptors, for slots 2 and 4, and signature_valid cleared.
C13_Witness ==
    /\ pc = "mbr_done"
    /\ Sector0Byte(510) = 0 /\ Sector0Byte(511) = 0
    /\ UsedSlots = {2, 4}
    /\ ~parsed_result.signature_valid
    /\ Len(parsed_result.partitions) = 2
    /\ parsed_result.partitions[1].index = 2
    /\ parsed_result.partitions[1].bootable
    /\ parsed_result.partitions[1].type_id = <<48, 120, 48, 54>>
    /\ parsed_result.partitions[1].start_lba = 39
    /\ parsed_result.partitions[1].size_sectors = 2097088
    /\ parsed_result.partitions[2].index = 4
    /\ ~parsed_result.partitions[2].bootable
    /\ parsed_result.partitions[2].start_lba = 0

\* setup_disk_params has returned True
SetupSucceeded == pc \notin {"run_entry", "setup_failed", "run_done"}

\* Byte o of the boot sector of the mounted partition, and the 16-bit
\* little-endian value at o
VbrByte(o) ==
    IF PARTITION_START_LBA \in DOMAIN image_sectors
          /\ o \in DOMAIN image_sectors[PARTITION_START_LBA].nz
    THEN image_sectors[PARTITION_START_LBA].nz[o] ELSE 0

VbrWord(o) == VbrByte(o) + 256 * VbrByte(o + 1)

\* ceil(a / b)
CeilDiv(a, b) == (a + b - 1) \div b

\* C14: after setup the geometry equals the specified formulas for the
\* boot sector of the mounted partition: fat1_start_lba = partition start +
\* reserved sectors, root_dir_lba = fat1_start_lba + num_fats x
\* fat_size_sectors, root_dir_sectors = ceil(root_entry_count x 32 /
\* sector_size) with sector_size the 16-bit value at offset 0x0B of the
\* boot sector, data_region_lba = root_dir_lba + root_dir_sectors; and it is
\* the geometry parse_fat16_boot_sector computes for that boot sector.
C14_GeometryAsSpecified ==
    SetupSucceeded =>
        LET sector_size == VbrWord(11)
            boot == parse_fat16_boot_sector(
                        [ok |-> TRUE, off |-> PARTITION_START_LBA * 512, len |-> 512],
                        PARTITION_START_LBA)
        IN  /\ FAT1_START_LBA = PARTITION_START_LBA + VbrWord(14)
            /\ ROOT_DIR_START_LBA = FAT1_START_LBA + VbrByte(16) * VbrWord(22)
            /\ ROOT_DIR_SECTORS = CeilDiv(VbrWord(17) * 32, sector_size)
            /\ DATA_REGION_START_LBA = ROOT_DIR_START_LBA + ROOT_DIR_SECTORS
            /\ boot.raised = "no"
            /\ FAT1_START_LBA = boot.first_fat_sector
            /\ ROOT_DIR_START_LBA = boot.root_dir_sector
            /\ ROOT_DIR_SECTORS = boot.root_size_sectors
            /\ DATA_REGION_START_LBA = boot.data_region_sector

\* The slots of the partition table that hold a FAT16 type
Fat16Slots == { n \in 1..4 : SlotByte(n, 4) \in {4, 6, 14} }

\* C15: the engine mounts the first partition entry whose type is FAT16
\* (0x04, 0x06 or 0x0E), and setup fails, so that no directory walk and no
\* recovery take place, when the mounted partition's type is not FAT16:
\* whenever setup has succeeded the table has a FAT16 entry and the
\* partition start in use is that of the first one.
C15_MountsFirstFat16 ==
    SetupSucceeded =>
        /\ Fat16Slots # {}
        /\ LET n == CHOOSE x \in Fat16Slots : \A y \in Fat16Slots : x <= y
           IN  PARTITION_START_LBA = SlotDword(n, 8)

----------------------------------------------------------------------------
(* Properties of the whole run *)

\* The paths the host has a file or a directory at
HostPaths == DOMAIN host_files \cup host_dirs

UnderRecoveryRoot(path) ==
    /\ Len(path) >= 1
    /\ path[1] = <<82, 69, 67, 79, 86, 69, 82, 69, 68, 95, 68, 65, 84, 65>>

RECURSIVE RootIndices(_)
RootIndices(log) ==
    IF log = <<>> THEN <<>>
    ELSE IF Head(log).lba = 519
         THEN <<Head(log).index>> \o RootIndices(Tail(log))
         ELSE RootIndices(Tail(log))

\* C21: a failure on one directory entry never aborts the walk: no
\* exception ends the run inside the walk, and when the walk is over every
\* record of the root directory up to its end marker, the siblings behind
\* a failed entry included, has been processed, in on-disk order.
C21_FailureNeverAborts ==
    /\ pc # "crashed"
    /\ pc = "walk_done" =>
           RootIndices(walk_log) = [k \in 1..Len(RecordsAt(519)) |-> k - 1]

(* Properties of the geometry after setup *)

PowersOfTwo == {1, 2, 4, 8, 16, 32, 64, 128}

\* C22: whenever setup succeeds the geometry has sectors_per_cluster in
\* {1, 2, 4, 8, 16, 32, 64, 128}, num_fats >= 1, fat_size_sectors >= 1 and
\* fat1_start_lba < root_dir_lba < data_region_lba, and so do the fields of
\* the boot sector it was read from: on a boot sector whose fields are
\* otherwise setup fails and no walk starts.
C22_GeometryValidated ==
    SetupSucceeded =>
        /\ SECTORS_PER_CLUSTER \in PowersOfTwo
        /\ VbrByte(13) \in PowersOfTwo
        /\ NUM_FATS >= 1
        /\ VbrByte(16) >= 1
        /\ FAT_SIZE_SECTORS >= 1
        /\ VbrWord(22) >= 1
        /\ FAT1_START_LBA < ROOT_DIR_START_LBA
        /\ ROOT_DIR_START_LBA < DATA_REGION_START_LBA

(* Properties of the names the walker hands to the host *)

\* Blank, tab, line feed, vertical tab, form feed, carriage return, the
\* separators 0x1C to 0x1F, and the spaces beyond ASCII
C23_Whitespace ==
    {9, 10, 11, 12, 13, 28, 29, 30, 31, 32, 133, 160, 5760, 8232, 8233, 8239,
     8287, 12288} \cup (8192..8202)

\* The entries whose name the walker joined into a host path: those it made
\* a directory for and those it called recover_file for
UsedAsComponent(e) == e.what \in {"dir", "file"}

\* C23: every name the walker uses as a host path component holds none of
\* '?', '/', '\' and no NUL, has no whitespace at its start or its end, and
\* is neither "." nor ".."; and every host directory made and every host
\* file written lies under the recovery root.
C23_SafeComponents ==
    /\ \A k \in 1..Len(walk_log) :
         LET e == walk_log[k]
         IN  UsedAsComponent(e) =>
                 /\ \A n \in 1..Len(e.name) : e.name[n] \notin {63, 47, 92, 0}
                 /\ e.name # <<>> =>
                        /\ e.name[1] \notin C23_Whitespace
                        /\ e.name[Len(e.name)] \notin C23_Whitespace
                 /\ e.name \notin {<<46>>, <<46, 46>>}
    /\ \A path \in HostPaths : UnderRecoveryRoot(path)
====
